---- MODULE Spec2Model ----
(***************************************************************************)
(* hopper: a hostname-aware reverse proxy for the Minecraft handshake.     *)
(* The model covers the VarInt codec (read_varint, write_varint), the      *)
(* handshake parse and routing of Server::proxy, the relay of pipe and     *)
(* pipe_stream, the route table behind Server::register, and the shutdown  *)
(* path of main.  Integers are Rust i32 values; bytes are 0..255.          *)
(***************************************************************************)
EXTENDS Integers, Sequences, FiniteSets, TLC

\* ------------------------------------------------------------------------
\* Program constants
\* ------------------------------------------------------------------------
SEGMENT_BITS == 127

CONTINUE_BIT == 128

\* the port Server::register pairs with the requester's address
DEFAULT_PORT == 25565

\* the buffer of pipe
PIPE_BUF == 1536

\* ------------------------------------------------------------------------
\* Bounds of the model
\* ------------------------------------------------------------------------
\* longest byte stream handed to read_varint in the codec specification
MaxCodecLen == 6

\* sessions the accept loop spawns
MaxSessions == 2

\* bytes a client sends after its first frame
MaxAfter == 2

\* bytes a backend sends
MaxBackendBytes == 2

\* ------------------------------------------------------------------------
\* 32-bit and 8-bit arithmetic, as Rust computes it
\* ------------------------------------------------------------------------
MinI32 == -2147483647 - 1

MaxI32 == 2147483647

I32 == MinI32..MaxI32

RECURSIVE BitAnd(_, _)
\* a & b on non-negative operands
BitAnd(a, b) ==
    IF a = 0 \/ b = 0 THEN 0
    ELSE (IF a % 2 = 1 /\ b % 2 = 1 THEN 1 ELSE 0) + 2 * BitAnd(a \div 2, b \div 2)

RECURSIVE BitOr(_, _)
\* a | b on non-negative operands
BitOr(a, b) ==
    IF a = 0 THEN b
    ELSE IF b = 0 THEN a
    ELSE (IF a % 2 = 1 \/ b % 2 = 1 THEN 1 ELSE 0) + 2 * BitOr(a \div 2, b \div 2)

\* the low 31 bits of an i32, as a non-negative number
Low31(v) == IF v < 0 THEN v - MinI32 ELSE v

\* a | b on i32 operands (two's complement)
Or32(a, b) ==
    LET low == BitOr(Low31(a), Low31(b))
    IN  IF a < 0 \/ b < 0 THEN low + MinI32 ELSE low

\* (x as i32) << pos for a byte x and 0 <= pos < 32: bits shifted past
\* bit 31 are lost, bit 31 is the sign
Shl32(x, pos) ==
    IF pos <= 23
    THEN x * (2 ^ pos)
    ELSE LET keep == 2 ^ (31 - pos)
             low  == (x % keep) * (2 ^ pos)
         IN  IF (x \div keep) % 2 = 1 THEN low + MinI32 ELSE low

\* val as u8
AsU8(val) == val % 256

\* val >> 7 on an i32: the shift is arithmetic
Shr7(val) == val \div 128

\* ------------------------------------------------------------------------
\* read_varint
\* ------------------------------------------------------------------------
\* The result of a read: ok with the value and the unread rest of the
\* stream, or an error.  "eof" is read_u8 finding no byte.
VarintOk(val, rest) == [ok |-> TRUE, val |-> val, rest |-> rest, err |-> "none"]

VarintErr(err, rest) == [ok |-> FALSE, val |-> 0, rest |-> rest, err |-> err]

RECURSIVE ReadVarintLoopLate(_, _, _, _)
\* read_varint were the length checked one group later
ReadVarintLoopLate(stream, tmp, val, pos) ==
    IF BitAnd(tmp, CONTINUE_BIT) = CONTINUE_BIT
    THEN IF stream = <<>>
         THEN VarintErr("eof", stream)
         ELSE LET t == Head(stream)
                  v == Or32(val, Shl32(BitAnd(t, SEGMENT_BITS), pos))
                  p == pos + 7
              IN  IF p > 35
                  THEN VarintErr("varint too long", Tail(stream))
                  ELSE ReadVarintLoopLate(Tail(stream), t, v, p)
    ELSE VarintOk(val, stream)

RECURSIVE ReadVarintLoop(_, _, _, _)
\* the loop of read_varint from a state (tmp, val, pos) of its variables
ReadVarintLoop(stream, tmp, val, pos) ==
    IF BitAnd(tmp, CONTINUE_BIT) = CONTINUE_BIT
    THEN IF stream = <<>>
         THEN VarintErr("eof", stream)
         ELSE LET t == Head(stream)
                  v == Or32(val, Shl32(BitAnd(t, SEGMENT_BITS), pos))
                  p == pos + 7
              IN  IF p >= 32
                  THEN VarintErr("varint too long", Tail(stream))
                  ELSE ReadVarintLoop(Tail(stream), t, v, p)
    ELSE VarintOk(val, stream)

read_varint(stream) == ReadVarintLoop(stream, CONTINUE_BIT, 0, 0)

\* ------------------------------------------------------------------------
\* write_varint
\* ------------------------------------------------------------------------
RECURSIVE write_varint(_)
write_varint(val) ==
    LET tmp == BitAnd(AsU8(val), SEGMENT_BITS)
        nxt == Shr7(val)
    IN  IF nxt > 0
        THEN <<BitOr(tmp, CONTINUE_BIT)>> \o write_varint(nxt)
        ELSE <<tmp>>

\* ------------------------------------------------------------------------
\* Strings, addresses and the route table
\* ------------------------------------------------------------------------
Min(a, b) == IF a < b THEN a ELSE b

Take(seq, n) == SubSeq(seq, 1, n)

Drop(seq, n) == SubSeq(seq, n + 1, Len(seq))

IsPrefix(p, seq) == Len(p) <= Len(seq) /\ Take(seq, Len(p)) = p

Cont(b) == b >= 128 /\ b <= 191

RECURSIVE Utf8Valid(_)
\* String::from_utf8 accepts exactly the well-formed UTF-8 byte sequences
Utf8Valid(b) ==
    IF b = <<>> THEN TRUE
    ELSE LET h == b[1]
             n == Len(b)
         IN  IF h <= 127 THEN Utf8Valid(Drop(b, 1))
             ELSE IF h >= 194 /\ h <= 223
                  THEN n >= 2 /\ Cont(b[2]) /\ Utf8Valid(Drop(b, 2))
             ELSE IF h >= 224 /\ h <= 239
                  THEN /\ n >= 3
                       /\ Cont(b[2]) /\ Cont(b[3])
                       /\ (h = 224 => b[2] >= 160)
                       /\ (h = 237 => b[2] <= 159)
                       /\ Utf8Valid(Drop(b, 3))
             ELSE IF h >= 240 /\ h <= 244
                  THEN /\ n >= 4
                       /\ Cont(b[2]) /\ Cont(b[3]) /\ Cont(b[4])
                       /\ (h = 240 => b[2] >= 144)
                       /\ (h = 244 => b[2] <= 143)
                       /\ Utf8Valid(Drop(b, 4))
             ELSE FALSE

\* hostnames are strings, written as their UTF-8 bytes: "a" and "b"
HostA == <<97>>

HostB == <<98>>

Hostnames == {HostA, HostB}

\* the addresses requests come from: ip1 is an IPv4 address, ip2 an IPv6 one
IPs == {"ip1", "ip2"}

\* the IPv6 addresses: Ipv6Addr::UNSPECIFIED and ip2
V6 == {"::", "ip2"}

\* source ports of the requests that reach the control endpoint
SrcPorts == {40000, 40001}

Addr(ip, port) == [ip |-> ip, port |-> port]

NoAddr == Addr("none", 0)

\* a lookup that falls back on some entry of the table when the key has none
LookupFallback(table, hostname) ==
    IF \E e \in table : e[1] = hostname
    THEN (CHOOSE e \in table : e[1] = hostname)[2]
    ELSE IF table # {} THEN (CHOOSE e \in table : TRUE)[2]
    ELSE [ip |-> "none", port |-> 0]

\* DashMap::get(..).map(|origin| origin.clone()): the entry of the key, if any
Lookup(table, hostname) ==
    IF \E e \in table : e[1] = hostname
    THEN (CHOOSE e \in table : e[1] = hostname)[2]
    ELSE NoAddr

\* an insert that drops the entries of the other keys
InsertClobber(table, hostname, addr) == {<<hostname, addr>>}

\* an insert that keeps the entry the key had
InsertKeepOld(table, hostname, addr) == table \cup {<<hostname, addr>>}

\* DashMap::insert: the entry of the key is replaced, the others are kept
Insert(table, hostname, addr) ==
    {e \in table : e[1] # hostname} \cup {<<hostname, addr>>}

\* ------------------------------------------------------------------------
\* read_string and the parse of the first frame
\* ------------------------------------------------------------------------
\* a read_string that takes the bytes as they are
read_string_lossy(cursor) ==
    LET n == read_varint(cursor)
    IN  IF ~n.ok THEN [ok |-> FALSE, str |-> <<>>, rest |-> n.rest, err |-> n.err]
        ELSE IF Len(n.rest) < n.val
             THEN [ok |-> FALSE, str |-> <<>>, rest |-> <<>>, err |-> "eof"]
        ELSE [ok |-> TRUE, str |-> Take(n.rest, n.val), rest |-> Drop(n.rest, n.val), err |-> "none"]

\* read_string on a Cursor: a length, that many bytes, checked as UTF-8
read_string(cursor) ==
    LET n == read_varint(cursor)
    IN  IF ~n.ok THEN [ok |-> FALSE, str |-> <<>>, rest |-> n.rest, err |-> n.err]
        ELSE IF n.val < 0
             THEN [ok |-> FALSE, str |-> <<>>, rest |-> n.rest, err |-> "capacity overflow"]
        ELSE IF Len(n.rest) < n.val
             THEN [ok |-> FALSE, str |-> <<>>, rest |-> <<>>, err |-> "eof"]
        ELSE IF ~Utf8Valid(Take(n.rest, n.val))
             THEN [ok |-> FALSE, str |-> <<>>, rest |-> Drop(n.rest, n.val), err |-> "invalid utf-8"]
        ELSE [ok |-> TRUE, str |-> Take(n.rest, n.val), rest |-> Drop(n.rest, n.val), err |-> "none"]

\* the parse without the test of the packet id
ParseAndRouteAnyId(packet, table) ==
    LET id   == read_varint(packet)
        prot == read_varint(id.rest)
        host == read_string(prot.rest)
        none == [next |-> "err", why |-> "none", protocol |-> 0,
                 hostname |-> <<>>, origin |-> NoAddr]
    IN  IF ~id.ok THEN [none EXCEPT !.why = id.err]
        ELSE IF ~prot.ok THEN [none EXCEPT !.why = prot.err]
        ELSE IF ~host.ok THEN [none EXCEPT !.why = host.err, !.protocol = prot.val]
        ELSE IF Lookup(table, host.str) = NoAddr
             THEN [none EXCEPT !.next = "ok", !.why = "no route",
                               !.protocol = prot.val, !.hostname = host.str]
        ELSE [next |-> "dial", why |-> "none", protocol |-> prot.val,
              hostname |-> host.str, origin |-> Lookup(table, host.str)]

\* Server::proxy from the Cursor over the packet to the route lookup:
\* what the session does next, with the fields it parsed
ParseAndRoute(packet, table) ==
    LET id   == read_varint(packet)
        prot == read_varint(id.rest)
        host == read_string(prot.rest)
        none == [next |-> "err", why |-> "none", protocol |-> 0,
                 hostname |-> <<>>, origin |-> NoAddr]
    IN  IF ~id.ok THEN [none EXCEPT !.why = id.err]
        ELSE IF id.val # 0 THEN [none EXCEPT !.next = "ok", !.why = "not a handshake"]
        ELSE IF ~prot.ok THEN [none EXCEPT !.why = prot.err]
        ELSE IF ~host.ok THEN [none EXCEPT !.why = host.err, !.protocol = prot.val]
        ELSE IF Lookup(table, host.str) = NoAddr
             THEN [none EXCEPT !.next = "ok", !.why = "no route",
                               !.protocol = prot.val, !.hostname = host.str]
        ELSE [next |-> "dial", why |-> "none", protocol |-> prot.val,
              hostname |-> host.str, origin |-> Lookup(table, host.str)]

\* ------------------------------------------------------------------------
\* The clients' byte streams
\* ------------------------------------------------------------------------
\* protocol version 760 as the client encodes it
Proto760 == <<248, 5>>

\* port 25565 and next state 2: the fields after the hostname
Trailing == <<99, 221, 2>>

PayloadOf(id, host, trail) == <<id>> \o Proto760 \o <<Len(host)>> \o host \o trail

Payloads ==
    {PayloadOf(id, host, trail) :
        id \in {0, 1}, host \in Hostnames \cup {<<255>>}, trail \in {<<>>, Trailing}}

\* the length prefix, minimal or padded with a zero group
LenPrefix(n, padded) == IF padded THEN <<128 + n, 0>> ELSE <<n>>

\* the bytes a client sends after its first frame: 7, 8, ...
Afters == {[i \in 1..n |-> 6 + i] : n \in 0..MaxAfter}

Malformed ==
    { <<>>, <<0>>, <<128, 128, 128, 128, 0>>, <<128, 128, 128, 128, 128, 1>>,
      <<5, 0, 248>>, <<2, 0, 248>>, <<4, 0, 4, 5, 97>> }

\* a well-formed handshake for each hostname (one with trailing fields, a
\* padded prefix and a byte after the frame), a frame that is no handshake,
\* a hostname that is no UTF-8, a length of six groups, a frame cut short, a
\* payload that ends inside its fields
CoreStreams ==
    { LenPrefix(8, TRUE) \o PayloadOf(0, HostA, Trailing) \o <<7>>,
      LenPrefix(5, FALSE) \o PayloadOf(0, HostB, <<>>),
      LenPrefix(5, FALSE) \o PayloadOf(1, HostA, <<>>),
      LenPrefix(5, FALSE) \o PayloadOf(0, <<255>>, <<>>),
      <<128, 128, 128, 128, 128, 1>>,
      <<5, 0, 248>>,
      <<2, 0, 248>> }

ClientStreams ==
    {LenPrefix(Len(p), padded) \o p \o after :
        p \in Payloads, padded \in BOOLEAN, after \in Afters} \cup Malformed

\* ------------------------------------------------------------------------
\* State
\* ------------------------------------------------------------------------
VARIABLES
    routes,     \* Server.routes: a set of <<hostname, address>> entries
    lastReg,    \* history: per hostname, the address of the latest insert
    listen,     \* Server.minecraft_proxy and Server.http_api_server
    proc,       \* main: "running", "saving" (shutdown is writing), "exited"
    snap,       \* the document shutdown is writing
    disk,       \* config.json: a JSON document, or no file
    sess,       \* the sessions: one Server::proxy task each, with its two peers
    codec       \* the codec under test: an input and the result of applying the codec

vars == <<routes, lastReg, listen, proc, snap, disk, sess, codec>>

Sessions == 1..MaxSessions

\* the Server struct: a value of its three fields
File(r, mc, http) == [present |-> TRUE, routes |-> r, minecraft_proxy |-> mc, http_api_server |-> http]

\* Server::default
DefaultServer == File({}, Addr("::", DEFAULT_PORT), Addr("::", 80))

\* the decimal digits, as characters
DigitChar == <<"0", "1", "2", "3", "4", "5", "6", "7", "8", "9">>

DigitVal(c) == CHOOSE d \in 0..9 : DigitChar[d + 1] = c

RECURSIVE ToDigits(_)
\* a port as SocketAddr's Display prints it
ToDigits(n) ==
    IF n < 10 THEN <<DigitChar[n + 1]>>
    ELSE ToDigits(n \div 10) \o <<DigitChar[(n % 10) + 1]>>

RECURSIVE FromDigits(_)
\* a port as SocketAddr's FromStr reads it
FromDigits(text) ==
    IF text = <<>> THEN 0
    ELSE FromDigits(Take(text, Len(text) - 1)) * 10 + DigitVal(text[Len(text)])

\* an address text that names the default port whatever the port is
AddrTextDefaultPort(addr) ==
    IF addr.ip \in {"::", "ip2"}
    THEN <<"[", addr.ip, "]", ":">> \o <<"2", "5", "5", "6", "5">>
    ELSE <<addr.ip, ":">> \o <<"2", "5", "5", "6", "5">>

\* serde writes a SocketAddr as its Display: "ip:port", "[ip]:port" for IPv6
AddrText(addr) ==
    IF addr.ip \in V6
    THEN <<"[", addr.ip, "]", ":">> \o ToDigits(addr.port)
    ELSE <<addr.ip, ":">> \o ToDigits(addr.port)

\* serde reads a SocketAddr with its FromStr
ParseAddr(text) ==
    IF Len(text) >= 5 /\ text[1] = "[" /\ text[3] = "]" /\ text[4] = ":"
    THEN Addr(text[2], FromDigits(Drop(text, 4)))
    ELSE IF Len(text) >= 3 /\ text[1] # "[" /\ text[2] = ":"
         THEN Addr(text[1], FromDigits(Drop(text, 2)))
    ELSE NoAddr

\* no config.json
NoFile == [present |-> FALSE, routes |-> {}, minecraft_proxy |-> <<>>, http_api_server |-> <<>>]

\* a config.json left by an earlier run: the JSON document, its addresses as text
Config0 ==
    [present |-> TRUE,
     routes |-> {<<HostA, <<"ip1", ":", "2", "5", "5", "6", "6">>>>},
     minecraft_proxy |-> <<"[", "::", "]", ":", "2", "5", "5", "7", "7">>,
     http_api_server |-> <<"[", "::", "]", ":", "8", "0", "8", "0">>]

\* serde_json::from_str: the Server a document describes
Deserialize(file) ==
    File({<<e[1], ParseAddr(e[2])>> : e \in file.routes},
         ParseAddr(file.minecraft_proxy), ParseAddr(file.http_api_server))

\* Server::new: the file if there is one, the defaults if not
Load(file) == IF file.present THEN Deserialize(file) ELSE DefaultServer

\* serde_json::to_vec_pretty(self): the document of the three fields
Serialize(r, l) ==
    [present |-> TRUE,
     routes |-> {<<e[1], AddrText(e[2])>> : e \in r},
     minecraft_proxy |-> AddrText(l.minecraft_proxy),
     http_api_server |-> AddrText(l.http_api_server)]

PipeOff == [st |-> "off", chunk |-> <<>>]

IdleSession ==
    [pc |-> "idle", result |-> "none", why |-> "none",
     sent |-> <<>>, inbuf |-> <<>>, cEOF |-> FALSE, cOpen |-> FALSE, cReads |-> TRUE,
     len |-> 0, packet |-> <<>>, protocol |-> 0, hostname |-> <<>>,
     origin |-> NoAddr, dials |-> 0,
     bsent |-> <<>>, bbuf |-> <<>>, bEOF |-> FALSE, bOpen |-> FALSE, bReads |-> TRUE,
     toBackend |-> <<>>, toClient |-> <<>>,
     c2b |-> PipeOff, b2c |-> PipeOff]

NoCodec == [op |-> "none", val |-> 0, bytes |-> <<>>, dec |-> VarintErr("none", <<>>)]

InitSystem ==
    /\ disk \in {NoFile, Config0}
    /\ routes = Load(disk).routes
    /\ lastReg = [h \in Hostnames |-> Lookup(Load(disk).routes, h)]
    /\ listen = [minecraft_proxy |-> Load(disk).minecraft_proxy,
                 http_api_server |-> Load(disk).http_api_server]
    /\ proc = "running"
    /\ snap = NoFile
    /\ sess = [s \in Sessions |-> IdleSession]

Init == InitSystem /\ codec = NoCodec

\* ------------------------------------------------------------------------
\* Server::proxy
\* ------------------------------------------------------------------------
\* the task returns: its streams are dropped, which closes them, and its
\* buffers are freed; what its peers received stays
Return(rec, result, why) ==
    [rec EXCEPT !.pc = "done", !.result = result, !.why = why,
                !.cOpen = FALSE, !.bOpen = FALSE,
                !.inbuf = <<>>, !.cEOF = FALSE, !.cReads = TRUE,
                !.bsent = <<>>, !.bbuf = <<>>, !.bEOF = FALSE, !.bReads = TRUE,
                !.c2b = [@ EXCEPT !.chunk = <<>>], !.b2c = [@ EXCEPT !.chunk = <<>>]]

\* main's accept loop: listener.accept() and spawn(server.proxy(conn, addr))
Accept(s, stream) ==
    /\ proc # "exited"
    /\ sess[s].pc = "idle"
    /\ \A t \in Sessions : t < s => sess[t].pc # "idle"
    /\ sess' = [sess EXCEPT ![s] = [IdleSession EXCEPT !.pc = "readLen", !.sent = stream,
                                                        !.inbuf = stream, !.cOpen = TRUE]]
    /\ UNCHANGED <<routes, lastReg, listen, proc, snap, disk, codec>>

\* read_varint(&mut edge) returns: it waits while the stream holds only part
\* of a VarInt and has not ended
ReadLenReady(rec) ==
    LET r == read_varint(rec.inbuf)
    IN  r.ok \/ r.err # "eof" \/ rec.cEOF

\* edge.read_exact(&mut packet) returns: the bytes are there or the stream has ended
ReadPacketReady(rec) == Len(rec.inbuf) >= rec.len \/ rec.cEOF

\* read_varint(&mut edge)
ProxyReadLen(s) ==
    LET rec == sess[s]
        r   == read_varint(rec.inbuf)
    IN  /\ proc # "exited"
        /\ rec.pc = "readLen"
        /\ ReadLenReady(rec)
        /\ sess' = [sess EXCEPT ![s] =
              IF ~r.ok THEN Return([rec EXCEPT !.inbuf = r.rest], "err", r.err)
              ELSE IF r.val < 0
                   THEN Return([rec EXCEPT !.inbuf = r.rest], "panic", "capacity overflow")
              ELSE [rec EXCEPT !.pc = "readPacket", !.len = r.val, !.inbuf = r.rest]]
        /\ UNCHANGED <<routes, lastReg, listen, proc, snap, disk, codec>>

\* a proxy that reads the frame through a buffer of its own: the bytes the
\* buffer took after the frame are not in the stream any more
ProxyReadPacketAhead(s) ==
    LET rec  == sess[s]
        have == Len(rec.inbuf) >= rec.len
        pkt  == Take(rec.inbuf, rec.len)
        r    == ParseAndRoute(pkt, routes)
        got  == [rec EXCEPT !.packet = pkt, !.inbuf = <<>>,
                            !.protocol = r.protocol, !.hostname = r.hostname,
                            !.origin = r.origin]
    IN  /\ proc # "exited"
        /\ rec.pc = "readPacket"
        /\ have \/ rec.cEOF
        /\ sess' = [sess EXCEPT ![s] =
              IF ~have THEN Return([rec EXCEPT !.inbuf = <<>>], "err", "eof")
              ELSE IF r.next = "dial"
                   THEN [got EXCEPT !.pc = "dialing", !.dials = rec.dials + 1]
              ELSE Return(got, r.next, r.why)]
        /\ UNCHANGED <<routes, lastReg, listen, proc, snap, disk, codec>>

\* edge.read_exact(&mut packet), then the parse and the route lookup, up to
\* TcpStream::connect
ProxyReadPacket(s) ==
    LET rec  == sess[s]
        have == Len(rec.inbuf) >= rec.len
        pkt  == Take(rec.inbuf, rec.len)
        r    == ParseAndRoute(pkt, routes)
        got  == [rec EXCEPT !.packet = pkt, !.inbuf = Drop(rec.inbuf, rec.len),
                            !.protocol = r.protocol, !.hostname = r.hostname,
                            !.origin = r.origin]
    IN  /\ proc # "exited"
        /\ rec.pc = "readPacket"
        /\ ReadPacketReady(rec)
        /\ sess' = [sess EXCEPT ![s] =
              IF ~have THEN Return([rec EXCEPT !.inbuf = <<>>], "err", "eof")
              ELSE IF r.next = "dial"
                   THEN [got EXCEPT !.pc = "dialing", !.dials = rec.dials + 1]
              ELSE Return(got, r.next, r.why)]
        /\ UNCHANGED <<routes, lastReg, listen, proc, snap, disk, codec>>

\* a proxy that starts the relay as soon as the origin is connected
ProxyConnectOkRelay(s) ==
    /\ proc # "exited"
    /\ sess[s].pc = "dialing"
    /\ sess' = [sess EXCEPT ![s].pc = "relaying", ![s].bOpen = TRUE,
                            ![s].c2b = [st |-> "read", chunk |-> <<>>],
                            ![s].b2c = [st |-> "read", chunk |-> <<>>]]
    /\ UNCHANGED <<routes, lastReg, listen, proc, snap, disk, codec>>

\* TcpStream::connect(origin) succeeds
ProxyConnectOk(s) ==
    /\ proc # "exited"
    /\ sess[s].pc = "dialing"
    /\ sess' = [sess EXCEPT ![s].pc = "forwarding", ![s].bOpen = TRUE]
    /\ UNCHANGED <<routes, lastReg, listen, proc, snap, disk, codec>>

\* a failed connect that is tried a second time before the session gives up
ProxyConnectErrRetry(s) ==
    /\ proc # "exited"
    /\ sess[s].pc = "dialing"
    /\ sess' = [sess EXCEPT ![s] =
          IF sess[s].dials < 2
          THEN [sess[s] EXCEPT !.dials = sess[s].dials + 1]
          ELSE Return(sess[s], "err", "connect")]
    /\ UNCHANGED <<routes, lastReg, listen, proc, snap, disk, codec>>

\* TcpStream::connect(origin) fails
ProxyConnectErr(s) ==
    /\ proc # "exited"
    /\ sess[s].pc = "dialing"
    /\ sess' = [sess EXCEPT ![s] = Return(sess[s], "err", "connect")]
    /\ UNCHANGED <<routes, lastReg, listen, proc, snap, disk, codec>>

\* a frame built again from the parsed fields: what follows the hostname is lost
ForwardedFrameRebuilt(packet) ==
    LET id     == read_varint(packet)
        prot   == read_varint(id.rest)
        host   == read_string(prot.rest)
        parsed == Take(packet, Len(packet) - Len(host.rest))
    IN  write_varint(Len(parsed)) \o parsed

\* the frame as proxy writes it: write_varint(packet.len() as i32), then the packet
ForwardedFrame(packet) == write_varint(Len(packet)) \o packet

PipeStart == [st |-> "read", chunk |-> <<>>]

\* write_varint and write_all to the origin, then pipe_stream up to its select!
ProxyForward(s) ==
    LET rec == sess[s]
    IN  /\ proc # "exited"
        /\ rec.pc = "forwarding"
        /\ rec.bReads
        /\ sess' = [sess EXCEPT ![s] =
              [rec EXCEPT !.pc = "relaying", !.toBackend = ForwardedFrame(rec.packet),
                          !.c2b = PipeStart, !.b2c = PipeStart]]
        /\ UNCHANGED <<routes, lastReg, listen, proc, snap, disk, codec>>

\* a write to the origin fails after k bytes of the frame (k = all of them:
\* set_nodelay fails); the frames of the model have at most 16 bytes
ProxyForwardErr(s, k) ==
    LET rec == sess[s]
    IN  /\ proc # "exited"
        /\ rec.pc = "forwarding"
        /\ k \in 0..Len(ForwardedFrame(rec.packet))
        /\ sess' = [sess EXCEPT ![s] =
              Return([rec EXCEPT !.toBackend = Take(ForwardedFrame(rec.packet), k)],
                     "err", "write")]
        /\ UNCHANGED <<routes, lastReg, listen, proc, snap, disk, codec>>

\* ------------------------------------------------------------------------
\* pipe and pipe_stream
\* ------------------------------------------------------------------------
Dirs == {"c2b", "b2c"}

Other(d) == IF d = "c2b" THEN "b2c" ELSE "c2b"

\* pipe(a_reader, b_writer) is "c2b", pipe(b_reader, a_writer) is "b2c"
PipeOf(rec, d) == IF d = "c2b" THEN rec.c2b ELSE rec.b2c

SrcBuf(rec, d) == IF d = "c2b" THEN rec.inbuf ELSE rec.bbuf

SrcEOF(rec, d) == IF d = "c2b" THEN rec.cEOF ELSE rec.bEOF

DstReads(rec, d) == IF d = "c2b" THEN rec.bReads ELSE rec.cReads

SetPipe(rec, d, p) == IF d = "c2b" THEN [rec EXCEPT !.c2b = p] ELSE [rec EXCEPT !.b2c = p]

SetSrc(rec, d, buf) == IF d = "c2b" THEN [rec EXCEPT !.inbuf = buf] ELSE [rec EXCEPT !.bbuf = buf]

AddDst(rec, d, bytes) ==
    IF d = "c2b" THEN [rec EXCEPT !.toBackend = @ \o bytes]
    ELSE [rec EXCEPT !.toClient = @ \o bytes]

\* reader.read(&mut buf) returns Ok(n), n > 0
PipeRead(s, d, n) ==
    LET rec == sess[s]
    IN  /\ proc # "exited"
        /\ rec.pc = "relaying"
        /\ PipeOf(rec, d).st = "read"
        /\ n \in 1..Min(Len(SrcBuf(rec, d)), PIPE_BUF)
        /\ sess' = [sess EXCEPT ![s] =
              SetPipe(SetSrc(rec, d, Drop(SrcBuf(rec, d), n)), d,
                      [st |-> "write", chunk |-> Take(SrcBuf(rec, d), n)])]
        /\ UNCHANGED <<routes, lastReg, listen, proc, snap, disk, codec>>

\* a write_all that starts again from the head of the chunk after a partial write
PipeWriteFromHead(s, d, k) ==
    LET rec  == sess[s]
        pipe == PipeOf(rec, d)
    IN  /\ proc # "exited"
        /\ rec.pc = "relaying"
        /\ pipe.st = "write"
        /\ DstReads(rec, d)
        /\ k \in 1..Len(pipe.chunk)
        /\ sess' = [sess EXCEPT ![s] =
              SetPipe(AddDst(rec, d, Take(pipe.chunk, k)), d,
                      IF k = Len(pipe.chunk) THEN [st |-> "read", chunk |-> <<>>] ELSE pipe)]
        /\ UNCHANGED <<routes, lastReg, listen, proc, snap, disk, codec>>

\* writer.write_all(&buf[..n]) gets k more bytes into the socket
PipeWrite(s, d, k) ==
    LET rec  == sess[s]
        pipe == PipeOf(rec, d)
        left == Drop(pipe.chunk, k)
    IN  /\ proc # "exited"
        /\ rec.pc = "relaying"
        /\ pipe.st = "write"
        /\ DstReads(rec, d)
        /\ k \in 1..Len(pipe.chunk)
        /\ sess' = [sess EXCEPT ![s] =
              SetPipe(AddDst(rec, d, Take(pipe.chunk, k)), d,
                      [st |-> IF left = <<>> THEN "read" ELSE "write", chunk |-> left])]
        /\ UNCHANGED <<routes, lastReg, listen, proc, snap, disk, codec>>

\* what ends the loop of pipe: Ok(0), Err(_) from read, Err(_) from write_all
PipeEnds(rec, d, cause) ==
    \/ cause = "eof" /\ PipeOf(rec, d).st = "read" /\ SrcBuf(rec, d) = <<>> /\ SrcEOF(rec, d)
    \/ cause = "read error" /\ PipeOf(rec, d).st = "read"
    \/ cause = "write error" /\ PipeOf(rec, d).st = "write"

\* a pipe_stream that waits for both pipes to return
pipe_stream_join(rec, d, cause) ==
    IF PipeOf(rec, Other(d)).st = "done"
    THEN Return(SetPipe(rec, d, [PipeOf(rec, d) EXCEPT !.st = "done"]), "ok", cause)
    ELSE SetPipe(rec, d, [st |-> "done", chunk |-> <<>>])

\* a pipe_stream that closes the connection its finished pipe wrote to and
\* leaves the other connection open
pipe_stream_half_close(rec, d, cause) ==
    [Return(SetPipe(SetPipe(rec, d, [PipeOf(rec, d) EXCEPT !.st = "done"]),
                    Other(d), [PipeOf(rec, Other(d)) EXCEPT !.st = "cancelled"]),
            "ok", cause)
        EXCEPT !.cOpen = (d = "c2b"), !.bOpen = (d = "b2c")]

\* select! in pipe_stream: the first pipe to return ends the select!, the other
\* pipe is dropped where it stands, the four halves are dropped, proxy returns Ok
pipe_stream(rec, d, cause) ==
    Return(SetPipe(SetPipe(rec, d, [PipeOf(rec, d) EXCEPT !.st = "done"]),
                   Other(d), [PipeOf(rec, Other(d)) EXCEPT !.st = "cancelled"]),
           "ok", cause)

\* the loop of pipe breaks, writer.shutdown() returns, pipe returns
PipeFinish(s, d, cause) ==
    LET rec == sess[s]
    IN  /\ proc # "exited"
        /\ rec.pc = "relaying"
        /\ PipeEnds(rec, d, cause)
        /\ sess' = [sess EXCEPT ![s] = pipe_stream(rec, d, cause)]
        /\ UNCHANGED <<routes, lastReg, listen, proc, snap, disk, codec>>

\* ------------------------------------------------------------------------
\* The peers
\* ------------------------------------------------------------------------
Live(rec) == rec.pc \notin {"idle", "done", "killed"}

\* the client closes its write side
ClientClose(s) ==
    /\ Live(sess[s]) /\ ~sess[s].cEOF
    /\ sess' = [sess EXCEPT ![s].cEOF = TRUE]
    /\ UNCHANGED <<routes, lastReg, listen, proc, snap, disk, codec>>

\* the backend closes its write side
BackendClose(s) ==
    /\ Live(sess[s]) /\ sess[s].bOpen /\ ~sess[s].bEOF
    /\ sess' = [sess EXCEPT ![s].bEOF = TRUE]
    /\ UNCHANGED <<routes, lastReg, listen, proc, snap, disk, codec>>

\* the backend sends a byte: 200, 201, ...
BackendSend(s, b) ==
    /\ Live(sess[s]) /\ sess[s].bOpen /\ ~sess[s].bEOF
    /\ Len(sess[s].bsent) < MaxBackendBytes
    /\ sess' = [sess EXCEPT ![s].bsent = Append(@, b), ![s].bbuf = Append(@, b)]
    /\ UNCHANGED <<routes, lastReg, listen, proc, snap, disk, codec>>

\* the client stops reading with bytes of the proxy unread: its window is full
ClientStall(s) ==
    /\ Live(sess[s]) /\ sess[s].cReads /\ sess[s].toClient # <<>>
    /\ sess' = [sess EXCEPT ![s].cReads = FALSE]
    /\ UNCHANGED <<routes, lastReg, listen, proc, snap, disk, codec>>

ClientResume(s) ==
    /\ Live(sess[s]) /\ ~sess[s].cReads
    /\ sess' = [sess EXCEPT ![s].cReads = TRUE]
    /\ UNCHANGED <<routes, lastReg, listen, proc, snap, disk, codec>>

\* the backend stops reading with bytes of the proxy unread
BackendStall(s) ==
    /\ Live(sess[s]) /\ sess[s].bOpen /\ sess[s].bReads /\ sess[s].toBackend # <<>>
    /\ sess' = [sess EXCEPT ![s].bReads = FALSE]
    /\ UNCHANGED <<routes, lastReg, listen, proc, snap, disk, codec>>

BackendResume(s) ==
    /\ Live(sess[s]) /\ ~sess[s].bReads
    /\ sess' = [sess EXCEPT ![s].bReads = TRUE]
    /\ UNCHANGED <<routes, lastReg, listen, proc, snap, disk, codec>>

\* ------------------------------------------------------------------------
\* Server::register and Server::shutdown
\* ------------------------------------------------------------------------
\* a register that answers only the address that holds the hostname
register_owned(hostname, addr) ==
    /\ proc # "exited"
    /\ Lookup(routes, hostname) = NoAddr \/ Lookup(routes, hostname).ip = addr.ip
    /\ routes' = Insert(routes, hostname, Addr(addr.ip, DEFAULT_PORT))
    /\ lastReg' = [lastReg EXCEPT ![hostname] = Addr(addr.ip, DEFAULT_PORT)]
    /\ UNCHANGED <<listen, proc, snap, disk, sess, codec>>

\* GET /register/{hostname} from addr
register(hostname, addr) ==
    /\ proc # "exited"
    /\ routes' = Insert(routes, hostname, Addr(addr.ip, DEFAULT_PORT))
    /\ lastReg' = [lastReg EXCEPT ![hostname] = Addr(addr.ip, DEFAULT_PORT)]
    /\ UNCHANGED <<listen, proc, snap, disk, sess, codec>>

\* signal::ctrl_c() returns: the state is serialised and fs::write begins
ShutdownSignal ==
    /\ proc = "running"
    /\ proc' = "saving"
    /\ snap' = Serialize(routes, listen)
    /\ UNCHANGED <<routes, lastReg, listen, disk, sess, codec>>

\* the process is gone: the tasks still running are dropped with their sockets
Killed(rec) ==
    IF Live(rec)
    THEN [Return(rec, "none", "process exit") EXCEPT !.pc = "killed"]
    ELSE rec

\* fs::write returns, shutdown returns Ok, the select! of main ends, main returns
ShutdownSave ==
    /\ proc = "saving"
    /\ proc' = "exited"
    /\ disk' = snap
    /\ sess' = [s \in Sessions |-> Killed(sess[s])]
    /\ routes' = {}
    /\ lastReg' = [h \in Hostnames |-> NoAddr]
    /\ snap' = NoFile
    /\ UNCHANGED <<listen, codec>>

\* the program is started again: main calls Server::new, which reads config.json
Restart ==
    /\ proc = "exited"
    /\ routes' = Load(disk).routes
    /\ lastReg' = [h \in Hostnames |-> Lookup(Load(disk).routes, h)]
    /\ listen' = [minecraft_proxy |-> Load(disk).minecraft_proxy,
                  http_api_server |-> Load(disk).http_api_server]
    /\ proc' = "running"
    /\ snap' = NoFile
    /\ sess' = [s \in Sessions |-> IdleSession]
    /\ UNCHANGED <<disk, codec>>

\* ------------------------------------------------------------------------
\* The system
\* ------------------------------------------------------------------------
\* the steps of the session tasks and of the relays; the I/O errors on an
\* established connection are steps of their own
ProxyStep ==
    \/ \E s \in Sessions : ProxyReadLen(s)
    \/ \E s \in Sessions : ProxyReadPacket(s)
    \/ \E s \in Sessions : ProxyConnectOk(s)
    \/ \E s \in Sessions : ProxyConnectErr(s)
    \/ \E s \in Sessions : ProxyForward(s)
    \/ \E s \in Sessions, d \in Dirs, n \in 1..(MaxAfter + MaxBackendBytes) : PipeRead(s, d, n)
    \/ \E s \in Sessions, d \in Dirs, k \in 1..(MaxAfter + MaxBackendBytes) : PipeWrite(s, d, k)
    \/ \E s \in Sessions, d \in Dirs : PipeFinish(s, d, "eof")

\* every session and the control endpoint, with clients that send one of
\* CoreStreams and peers that only close
Next ==
    \/ \E s \in Sessions, stream \in CoreStreams : Accept(s, stream)
    \/ ProxyStep
    \/ \E s \in Sessions : ProxyForwardErr(s, 0)
    \/ \E s \in Sessions : ClientClose(s)
    \/ \E s \in Sessions : BackendClose(s)
    \/ \E h \in Hostnames, ip \in IPs, port \in SrcPorts : register(h, Addr(ip, port))

Spec == Init /\ [][Next]_vars

\* one session in depth: any stream of ClientStreams, a backend that sends,
\* peers that close or reset the connection, and the control endpoint; a peer
\* that stops reading only delays the writes to it
SessionNext ==
    \/ \E stream \in ClientStreams : Accept(1, stream)
    \/ ProxyStep
    \/ \E k \in 0..16 : ProxyForwardErr(1, k)
    \/ \E d \in Dirs, cause \in {"read error", "write error"} : PipeFinish(1, d, cause)
    \/ ClientClose(1)
    \/ BackendClose(1)
    \/ BackendSend(1, 200 + Len(sess[1].bsent))
    \/ \E h \in Hostnames, ip \in IPs : register(h, Addr(ip, 40000))

SessionSpec == Init /\ [][SessionNext]_vars

\* The runtime polls a task whose I/O is ready: a step of a relay that stays
\* possible is taken.  Nothing is assumed of the peers.
RelayFairness ==
    \A d \in Dirs :
        /\ WF_vars(\E n \in 1..(MaxAfter + MaxBackendBytes) : PipeRead(1, d, n))
        /\ WF_vars(\E k \in 1..(MaxAfter + MaxBackendBytes) : PipeWrite(1, d, k))
        /\ WF_vars(PipeFinish(1, d, "eof"))

\* one session and its relay, routed by the table config.json gave: any
\* stream of ClientStreams, a backend that sends, peers that stop and resume
\* reading or reset the connection
RelayNext ==
    \/ \E stream \in ClientStreams : Accept(1, stream)
    \/ ProxyStep
    \/ \E k \in 0..16 : ProxyForwardErr(1, k)
    \/ \E d \in Dirs, cause \in {"read error", "write error"} : PipeFinish(1, d, cause)
    \/ ClientClose(1)
    \/ BackendClose(1)
    \/ BackendSend(1, 200 + Len(sess[1].bsent))
    \/ ClientStall(1)
    \/ ClientResume(1)
    \/ BackendStall(1)
    \/ BackendResume(1)

FairRelaySpec == Init /\ [][RelayNext]_vars /\ RelayFairness

\* the process from its start to its exit and its next start: the accept
\* loop with one session at a time, the control endpoint and the shutdown path
MainNext ==
    \/ \E stream \in CoreStreams : Accept(1, stream)
    \/ ProxyStep
    \/ ProxyForwardErr(1, 0)
    \/ ClientClose(1)
    \/ BackendClose(1)
    \/ \E h \in Hostnames, ip \in IPs, port \in SrcPorts : register(h, Addr(ip, port))
    \/ ShutdownSignal
    \/ ShutdownSave
    \/ Restart

MainSpec == Init /\ [][MainNext]_vars

\* ------------------------------------------------------------------------
\* The codec on its own: an input is drawn, write_varint and read_varint are
\* applied to it
\* ------------------------------------------------------------------------
CodecValues ==
    { 0, 1, 2, 23, 127, 128, 255, 760, 16383, 16384, 2097151, 2097152,
      268435455, 268435456, 1073741824, MaxI32,
      -1, -2, -128, -129, -268435456, MinI32 }

CodecBytes == {0, 1, 127, 128, 255}

CodecStreams == UNION {[1..n -> CodecBytes] : n \in 0..MaxCodecLen}

CodecInit ==
    /\ InitSystem
    /\ \/ \E v \in CodecValues : codec = [NoCodec EXCEPT !.op = "value", !.val = v]
       \/ \E b \in CodecStreams : codec = [NoCodec EXCEPT !.op = "bytes", !.bytes = b]

\* write_varint(writer, val)
CodecEncode ==
    /\ codec.op = "value"
    /\ codec' = [codec EXCEPT !.op = "encoded", !.bytes = write_varint(codec.val)]
    /\ UNCHANGED <<routes, lastReg, listen, proc, snap, disk, sess>>

\* read_varint(reader) on the bytes just written
CodecRoundTrip ==
    /\ codec.op = "encoded"
    /\ codec' = [codec EXCEPT !.op = "roundtrip", !.dec = read_varint(codec.bytes)]
    /\ UNCHANGED <<routes, lastReg, listen, proc, snap, disk, sess>>

\* read_varint(reader) on a stream that ends after its last byte
CodecDecode ==
    /\ codec.op = "bytes"
    /\ codec' = [codec EXCEPT !.op = "decoded", !.dec = read_varint(codec.bytes)]
    /\ UNCHANGED <<routes, lastReg, listen, proc, snap, disk, sess>>

CodecNext == CodecEncode \/ CodecRoundTrip \/ CodecDecode

CodecSpec == CodecInit /\ [][CodecNext]_vars

\* ------------------------------------------------------------------------
\* The protocol's VarInt, bit by bit: the reference the codec is held to
\* ------------------------------------------------------------------------
\* bit j (0..31) of the two's-complement pattern of an i32
BitOf(v, j) == IF j = 31 THEN (IF v < 0 THEN 1 ELSE 0) ELSE (Low31(v) \div (2 ^ j)) % 2

\* the 7-bit group i (0..4) of the pattern of v taken as unsigned
GroupOf(v, i) ==
    BitOf(v, 7 * i) + 2 * BitOf(v, 7 * i + 1) + 4 * BitOf(v, 7 * i + 2)
    + 8 * BitOf(v, 7 * i + 3)
    + (IF i < 4
       THEN 16 * BitOf(v, 7 * i + 4) + 32 * BitOf(v, 7 * i + 5) + 64 * BitOf(v, 7 * i + 6)
       ELSE 0)

\* the groups the protocol emits for v: up to the last group that is not zero
GroupCount(v) ==
    IF \E i \in 1..4 : GroupOf(v, i) # 0
    THEN 1 + CHOOSE i \in 1..4 : GroupOf(v, i) # 0 /\ \A j \in (i + 1)..4 : GroupOf(v, j) = 0
    ELSE 1

UnsignedGroups(v) ==
    [i \in 1..GroupCount(v) |->
        GroupOf(v, i - 1) + (IF i < GroupCount(v) THEN CONTINUE_BIT ELSE 0)]

\* bit j of the value a stream of groups spells, low-order group first
StreamBit(bytes, j) ==
    IF j \div 7 + 1 <= Len(bytes)
    THEN ((bytes[j \div 7 + 1] % 128) \div (2 ^ (j % 7))) % 2
    ELSE 0

RECURSIVE SumBits(_, _)
SumBits(bytes, j) ==
    IF j < 0 THEN 0 ELSE StreamBit(bytes, j) * (2 ^ j) + SumBits(bytes, j - 1)

\* the i32 whose bits are the groups of the stream; bits past bit 31 are lost
GroupsValue(bytes) ==
    SumBits(bytes, 30) + (IF StreamBit(bytes, 31) = 1 THEN MinI32 ELSE 0)

\* a stream that is one VarInt of at most five groups and nothing else
OneVarint(bytes) ==
    /\ Len(bytes) \in 1..5
    /\ bytes[Len(bytes)] < CONTINUE_BIT
    /\ \A i \in 1..(Len(bytes) - 1) : bytes[i] >= CONTINUE_BIT

\* ------------------------------------------------------------------------
\* Claims on the codec (CodecSpec)
\* ------------------------------------------------------------------------
\* C6: for every 32-bit signed v, read_varint on the bytes write_varint emits
\* for v returns v.
C6_RoundTrip ==
    codec.op = "roundtrip" => codec.dec.ok /\ codec.dec.val = codec.val

\* C7: read_varint fails with "varint too long" on a stream that begins with
\* five bytes that all have the continuation bit, whatever follows.
C7_FiveContinuationsFail ==
    ( /\ codec.op = "decoded"
      /\ Len(codec.bytes) >= 5
      /\ \A i \in 1..5 : codec.bytes[i] >= CONTINUE_BIT )
    => ~codec.dec.ok /\ codec.dec.err = "varint too long"

\* five continuation bytes followed by one more byte have been decoded
C7_Witness ==
    /\ codec.op = "decoded"
    /\ Len(codec.bytes) = 6
    /\ \A i \in 1..5 : codec.bytes[i] >= CONTINUE_BIT
    /\ codec.bytes[6] < CONTINUE_BIT
    /\ ~codec.dec.ok

\* C8: every stream of 1 to 5 bytes whose last byte alone has the high bit
\* clear decodes to the i32 whose bits are its groups, low-order first.
C8_DecodesUpToFiveGroups ==
    (codec.op = "decoded" /\ OneVarint(codec.bytes))
    => codec.dec.ok /\ codec.dec.val = GroupsValue(codec.bytes)

\* C9: write_varint emits the 7-bit groups of v taken as an unsigned 32-bit
\* pattern, low-order first, the high bit set on every byte but the last; a
\* negative v yields 5 bytes.
C9_EncodeUnsignedGroups ==
    codec.op = "encoded" =>
        /\ codec.bytes = UnsignedGroups(codec.val)
        /\ (codec.val < 0 => Len(codec.bytes) = 5)

\* ------------------------------------------------------------------------
\* What the client sent, read as the protocol defines it
\* ------------------------------------------------------------------------
\* the bytes of the VarInt a stream begins with: up to its first byte without
\* the continuation bit (0 if there is none)
RefVarintLen(bytes) ==
    IF \E i \in 1..Len(bytes) : bytes[i] < CONTINUE_BIT
    THEN CHOOSE i \in 1..Len(bytes) :
            bytes[i] < CONTINUE_BIT /\ \A j \in 1..(i - 1) : bytes[j] >= CONTINUE_BIT
    ELSE 0

RefVarint(bytes) == GroupsValue(Take(bytes, RefVarintLen(bytes)))

AfterVarint(bytes) == Drop(bytes, RefVarintLen(bytes))

\* the stream holds a whole frame: a length of at most four groups and as
\* many bytes after it
RefComplete(sent) ==
    /\ RefVarintLen(sent) \in 1..4
    /\ Len(AfterVarint(sent)) >= RefVarint(sent)

RefPayload(sent) == Take(AfterVarint(sent), RefVarint(sent))

RefPacketId(sent) == RefVarint(RefPayload(sent))

\* the hostname field: after the packet id and the protocol version
RefHostField(sent) == AfterVarint(AfterVarint(RefPayload(sent)))

RefHostname(sent) == Take(AfterVarint(RefHostField(sent)), RefVarint(RefHostField(sent)))

\* the payload is a handshake whose three fields are all there
RefHandshake(sent) ==
    /\ RefComplete(sent)
    /\ RefVarintLen(RefPayload(sent)) \in 1..4
    /\ RefPacketId(sent) = 0
    /\ RefVarintLen(AfterVarint(RefPayload(sent))) \in 1..4
    /\ RefVarintLen(RefHostField(sent)) \in 1..4
    /\ Len(AfterVarint(RefHostField(sent))) >= RefVarint(RefHostField(sent))
    /\ Utf8Valid(RefHostname(sent))

\* the frame the backend is to receive: the length in the protocol's
\* encoding, then the client's payload
ExpectedFrame(sent) == UnsignedGroups(RefVarint(sent)) \o RefPayload(sent)

Keys(table) == {e[1] : e \in table}

\* the bytes of the stream that follow its first frame
RefAfterFrame(sent) == Drop(AfterVarint(sent), RefVarint(sent))

\* the first frame of the stream cannot be parsed: its length has five
\* continuation bytes; or it is whole and its packet id cannot be read, or
\* its packet id is 0 and its fields are cut short or its hostname is no UTF-8
RefUnparsable(sent) ==
    \/ Len(sent) >= 5 /\ \A i \in 1..5 : sent[i] >= CONTINUE_BIT
    \/ /\ RefComplete(sent)
       /\ ~RefHandshake(sent)
       /\ ~(RefVarintLen(RefPayload(sent)) \in 1..4 /\ RefPacketId(sent) # 0)

\* the stream ends inside the length or before the L bytes of the frame
RefCutShort(sent) ==
    \/ RefVarintLen(sent) = 0 /\ Len(sent) < 5
    \/ RefVarintLen(sent) \in 1..4 /\ Len(AfterVarint(sent)) < RefVarint(sent)

\* the streams of the clients whose first frame cannot be parsed
UnparsableStreams == {st \in CoreStreams \cup ClientStreams : RefUnparsable(st)}

\* the streams of the clients that end before their first frame is whole
CutShortStreams == {st \in CoreStreams \cup ClientStreams : RefCutShort(st)}

\* the streams of the clients that hold a whole first frame, with the frame
\* the backend is to receive and the bytes that follow the frame
WholeStreams == {st \in CoreStreams \cup ClientStreams : RefComplete(st)}

RefFrameOf == [st \in WholeStreams |-> ExpectedFrame(st)]

RefAfterOf == [st \in WholeStreams |-> RefAfterFrame(st)]

\* the streams of the clients whose first frame is a handshake with all its fields
HandshakeStreams == {st \in CoreStreams \cup ClientStreams : RefHandshake(st)}

\* ------------------------------------------------------------------------
\* Claims on one session (SessionSpec)
\* ------------------------------------------------------------------------
\* C1: what the backend receives begins with the VarInt of the payload length L
\* and then the L payload bytes exactly as the client sent them, the bytes
\* after the hostname included; only the length prefix is encoded again.
C1_FrameForwardedVerbatim ==
    \A s \in Sessions :
        LET rec == sess[s]
            e   == RefFrameOf[rec.sent]
        IN  /\ rec.toBackend # <<>> =>
                /\ rec.sent \in HandshakeStreams
                /\ IsPrefix(rec.toBackend, e) \/ IsPrefix(e, rec.toBackend)
            /\ rec.c2b.st # "off" =>
                /\ rec.sent \in HandshakeStreams
                /\ IsPrefix(e, rec.toBackend)

\* a frame with a padded length prefix and fields after the hostname has
\* been forwarded, and the relay has carried the byte that followed it
C1_Witness ==
    \E s \in Sessions :
        /\ sess[s].pc = "relaying"
        /\ sess[s].sent[1] >= CONTINUE_BIT
        /\ Len(RefPayload(sess[s].sent)) > 5
        /\ Len(sess[s].toBackend) = Len(ExpectedFrame(sess[s].sent)) + 1
        /\ Take(sess[s].toBackend, 1) # Take(sess[s].sent, 1)

\* ------------------------------------------------------------------------
\* Claims on the sessions and the control endpoint (Spec)
\* ------------------------------------------------------------------------
\* C2: a session whose first frame has a packet id other than 0 never opens a
\* backend connection, whatever the registrations and the other sessions do,
\* and it ends as a success.
C2_NonHandshakeNeverDials ==
    \A s \in Sessions :
        LET rec == sess[s]
        IN  (RefComplete(rec.sent) /\ RefPacketId(rec.sent) # 0) =>
                /\ rec.dials = 0
                /\ ~rec.bOpen
                /\ rec.toBackend = <<>>
                /\ rec.pc \in {"readLen", "readPacket", "done"}
                /\ rec.pc = "done" => rec.result = "ok"

\* a session with packet id 1 has ended while its hostname had a route and
\* another session was relaying
C2_Witness ==
    \E s, t \in Sessions :
        /\ sess[s].pc = "done"
        /\ RefComplete(sess[s].sent) /\ RefPacketId(sess[s].sent) = 1
        /\ RefHostname(sess[s].sent) \in Keys(routes)
        /\ sess[t].pc = "relaying"

\* C3: a session whose hostname has no entry in the route table when it is
\* looked up never opens a backend connection, writes nothing to the client
\* and ends as a success.
C3_UnknownHostDropped ==
    [][\A s \in Sessions :
          /\ ( /\ sess[s].pc = "readPacket"
               /\ sess'[s].pc # "readPacket"
               /\ RefHandshake(sess[s].sent)
               /\ RefHostname(sess[s].sent) \notin Keys(routes) )
             => /\ sess'[s].pc = "done"
                /\ sess'[s].result = "ok"
                /\ sess'[s].dials = 0
                /\ ~sess'[s].bOpen
                /\ sess'[s].toClient = <<>>
                /\ sess'[s].toBackend = <<>>
          /\ sess[s].pc = "done" => sess'[s] = sess[s]
      ]_vars

\* a session has been dropped for a hostname without a route while the
\* other hostname had one
C3_Witness ==
    \E s \in Sessions :
        /\ sess[s].pc = "done"
        /\ sess[s].why = "no route"
        /\ RefHandshake(sess[s].sent)
        /\ RefHostname(sess[s].sent) \notin Keys(routes)
        /\ routes # {}

\* C5: once register(h, A) has returned, a lookup of h returns A, and registers
\* of other hostnames do not change that; a lookup sees the value before or
\* the value after a register of its hostname, nothing else.
C5_RegisterThenLookup ==
    [][/\ \A h \in Hostnames : Lookup(routes', h) = lastReg'[h]
       /\ \A h \in Hostnames, ip \in IPs, port \in SrcPorts :
             register(h, Addr(ip, port)) =>
                /\ Lookup(routes', h) = Addr(ip, DEFAULT_PORT)
                /\ \A g \in Hostnames \ {h} : Lookup(routes', g) = Lookup(routes, g)
       /\ \A s \in Sessions :
             (sess[s].pc = "readPacket" /\ sess'[s].pc = "dialing") =>
                sess'[s].origin \in {lastReg[RefHostname(sess[s].sent)],
                                     lastReg'[RefHostname(sess[s].sent)]}
      ]_vars

\* a session has looked up a hostname registered by one address while the
\* other hostname is registered by another address
C5_Witness ==
    \E s \in Sessions :
        /\ sess[s].pc = "dialing"
        /\ sess[s].origin = Addr("ip2", DEFAULT_PORT)
        /\ Lookup(routes, sess[s].hostname) = Addr("ip2", DEFAULT_PORT)
        /\ \E g \in Hostnames \ {sess[s].hostname} : Lookup(routes, g) = Addr("ip1", DEFAULT_PORT)

\* C10: register is an upsert, the last write wins: a lookup returns the
\* address of the latest register of the hostname, a hostname has at most one
\* entry, and a register of a pair the table holds leaves the table as it is.
C10_LastWriteWins ==
    [][/\ \A e1, e2 \in routes' : e1[1] = e2[1] => e1 = e2
       /\ \A h \in Hostnames : <<h, lastReg'[h]>> \in routes' \/ lastReg'[h] = NoAddr
       /\ \A h \in Hostnames, ip \in IPs, port \in SrcPorts :
             register(h, Addr(ip, port)) =>
                /\ <<h, Addr(ip, DEFAULT_PORT)>> \in routes'
                /\ <<h, Addr(ip, DEFAULT_PORT)>> \in routes => routes' = routes
      ]_vars

\* the entry config.json gave a hostname has been replaced by a register, then
\* that one by a register from another address
C10_Witness ==
    /\ disk = Config0
    /\ <<HostA, Addr("ip2", DEFAULT_PORT)>> \in routes
    /\ <<HostB, Addr("ip1", DEFAULT_PORT)>> \in routes
    /\ Cardinality(routes) = 2

\* ------------------------------------------------------------------------
\* Claims on the relay (FairRelaySpec)
\* ------------------------------------------------------------------------
\* C4: during relay, when the backend closes its write side the client-facing
\* connection is eventually closed, and when the client closes its write side
\* the backend connection is eventually closed, also when the receiving peer
\* is not reading.
C4_PeerCloseClosesOther ==
    /\ (sess[1].pc = "relaying" /\ sess[1].bEOF) ~> ~sess[1].cOpen
    /\ (sess[1].pc = "relaying" /\ sess[1].cEOF) ~> ~sess[1].bOpen

\* C4 as amended: when a peer has closed its write side and the copy loop that
\* reads from it is at its read with nothing left to copy, so that this read
\* returns end-of-stream, the connection to the other peer is eventually
\* closed, whatever the other direction is doing.
C4_EofReadClosesOther ==
    /\ ( /\ sess[1].pc = "relaying" /\ sess[1].bEOF
         /\ sess[1].bbuf = <<>> /\ sess[1].b2c.st = "read" ) ~> ~sess[1].cOpen
    /\ ( /\ sess[1].pc = "relaying" /\ sess[1].cEOF
         /\ sess[1].inbuf = <<>> /\ sess[1].c2b.st = "read" ) ~> ~sess[1].bOpen

\* the backend has closed and its loop is at its read, while the other
\* direction is blocked in write_all toward a backend that does not read
C4_Witness ==
    /\ sess[1].pc = "relaying"
    /\ sess[1].bEOF /\ sess[1].bbuf = <<>> /\ sess[1].b2c.st = "read"
    /\ sess[1].c2b.st = "write" /\ ~sess[1].bReads

\* ------------------------------------------------------------------------
\* Claims on the registration interface (Spec)
\* ------------------------------------------------------------------------
\* C11: a register of a hostname from an address maps the hostname to the IP
\* of that address with port 25565, whatever its source port; it is never
\* refused, also when another IP holds the hostname, and it replaces that
\* entry; a session that looks the hostname up afterwards dials the new address.
C11_RegisterFromAnyIp ==
    /\ [](\A h \in Hostnames, ip \in IPs, port \in SrcPorts :
             ENABLED register(h, Addr(ip, port)))
    /\ [][/\ \A h \in Hostnames, ip \in IPs, port \in SrcPorts :
                register(h, Addr(ip, port)) =>
                    /\ <<h, [ip |-> ip, port |-> 25565]>> \in routes'
                    /\ \A e \in routes' : e[1] = h => e[2] = [ip |-> ip, port |-> 25565]
          /\ \A s \in Sessions :
                (sess[s].pc = "readPacket" /\ sess'[s].pc = "dialing") =>
                    <<RefHostname(sess[s].sent), sess'[s].origin>> \in routes
         ]_vars

\* the hostname config.json gave to ip1 has been taken by a register from ip2,
\* and a session that asked for it afterwards is connected to ip2, port 25565
C11_Witness ==
    \E s \in Sessions :
        /\ disk = Config0
        /\ sess[s].pc = "relaying"
        /\ RefHostname(sess[s].sent) = HostA
        /\ sess[s].origin = [ip |-> "ip2", port |-> 25565]

\* ------------------------------------------------------------------------
\* Claims on the snapshot and the shutdown path (MainSpec)
\* ------------------------------------------------------------------------
\* C12: the document save writes for a state T (the table and the two listen
\* addresses when shutdown serialises them) loads as the same hostname-to-address
\* pairs and the same two listen addresses; the document does not change while
\* it is written, it replaces config.json whole, and the next start serves
\* what it loads from it.
C12_SnapshotRoundTrip ==
    [][/\ (proc = "running" /\ proc' = "saving") =>
            /\ snap'.present
            /\ Load(snap').routes = routes
            /\ Load(snap').minecraft_proxy = listen.minecraft_proxy
            /\ Load(snap').http_api_server = listen.http_api_server
       /\ (proc = "saving" /\ proc' = "saving") => snap' = snap
       /\ (proc = "saving" /\ proc' = "exited") => disk' = snap
       /\ (proc = "exited" /\ proc' = "running") =>
            /\ routes' = Load(disk).routes
            /\ listen'.minecraft_proxy = Load(disk).minecraft_proxy
            /\ listen'.http_api_server = Load(disk).http_api_server
            /\ \A e \in routes' : e[1] \in Hostnames /\ e[2].ip \in IPs /\ e[2].port \in 1..65535
      ]_vars

\* a process started from a config.json that a save wrote over the earlier
\* one: the entry the earlier file gave the hostname is gone, the listen
\* addresses of the earlier file are kept
C12_Witness ==
    /\ proc = "running"
    /\ disk.present /\ disk # Config0
    /\ routes = {<<HostA, Addr("ip2", 25565)>>, <<HostB, Addr("ip1", 25565)>>}
    /\ Cardinality(disk.routes) = 2
    /\ listen.minecraft_proxy = Addr("::", 25577)
    /\ listen.http_api_server = Addr("::", 8080)

\* ------------------------------------------------------------------------
\* Claims on the relay of one session (SessionSpec)
\* ------------------------------------------------------------------------
\* C13: while the session relays, both copy loops are running; the step in
\* which one of them finishes (end-of-stream, read error or write error)
\* cancels the other and closes both connections; the relay ends in no other
\* way; a session that has ended reads and writes nothing more.
C13_FirstFinishCancelsOther ==
    [][\A s \in Sessions :
          LET a == sess[s]
              b == sess'[s]
          IN  /\ b.pc = "relaying" => \A d \in Dirs : PipeOf(b, d).st \in {"read", "write"}
              /\ (a.pc = "relaying" /\ \E d \in Dirs : PipeOf(b, d).st = "done") =>
                    /\ b.pc = "done"
                    /\ ~b.cOpen /\ ~b.bOpen
                    /\ \E d \in Dirs : /\ PipeOf(b, d).st = "done"
                                       /\ PipeOf(b, Other(d)).st = "cancelled"
                    /\ b.why \in {"eof", "read error", "write error"}
              /\ (a.pc = "relaying" /\ b.pc # "relaying") =>
                    \E d \in Dirs : PipeOf(b, d).st = "done"
              /\ a.pc = "done" => b = a
      ]_vars

\* the backend's bytes had reached the client when a write error ended the
\* loop toward the backend: the other loop is cancelled and both connections
\* are closed
C13_Witness ==
    \E s \in Sessions :
        /\ sess[s].pc = "done"
        /\ sess[s].why = "write error"
        /\ sess[s].c2b.st = "done" /\ sess[s].b2c.st = "cancelled"
        /\ sess[s].toClient # <<>>
        /\ sess[s].toBackend = ExpectedFrame(sess[s].sent)
        /\ ~sess[s].cOpen /\ ~sess[s].bOpen

\* C14: the steps of a session are in order: connect is called only by the
\* step that has the whole frame and finds the route; the connection exists
\* only after connect has returned it; the bytes of the frame are written
\* only on that connection; a byte is relayed to the client or to the backend
\* only when the whole frame has been written to the backend.
C14_StepsInOrder ==
    [][\A s \in Sessions :
          LET a == sess[s]
              b == sess'[s]
              e == ExpectedFrame(a.sent)
          IN  /\ b.dials > a.dials =>
                    /\ a.pc = "readPacket" /\ b.pc = "dialing"
                    /\ RefHandshake(a.sent)
                    /\ b.packet = RefPayload(a.sent)
                    /\ RefHostname(a.sent) \in Keys(routes)
                    /\ a.toBackend = <<>> /\ a.toClient = <<>>
              /\ (b.bOpen /\ ~a.bOpen) => (a.pc = "dialing" /\ a.dials = 1 /\ a.toBackend = <<>>)
              /\ (b.toBackend # a.toBackend /\ a.pc # "relaying") =>
                    /\ a.pc = "forwarding" /\ a.bOpen
                    /\ a.toBackend = <<>> /\ a.toClient = <<>>
                    /\ IsPrefix(b.toBackend, e)
              /\ ( \/ b.toClient # a.toClient
                   \/ b.toBackend # a.toBackend /\ a.pc = "relaying"
                   \/ b.inbuf # a.inbuf /\ a.pc = "relaying" /\ b.pc = "relaying" ) =>
                    /\ a.pc = "relaying" /\ a.bOpen
                    /\ IsPrefix(e, a.toBackend)
      ]_vars

\* a session has relayed a byte in each direction after its frame
C14_Witness ==
    \E s \in Sessions :
        /\ sess[s].pc = "relaying"
        /\ sess[s].dials = 1
        /\ Len(sess[s].toClient) = 1
        /\ Len(sess[s].toBackend) = Len(ExpectedFrame(sess[s].sent)) + 1

\* ------------------------------------------------------------------------
\* Claims on the sessions side by side (Spec)
\* ------------------------------------------------------------------------
\* C15: a session whose first frame cannot be parsed, or whose stream ends
\* before the frame is whole, never calls connect, has no backend connection
\* and writes nothing; it is not stuck once its bytes (or the end of its
\* stream) are there; when it ends it ends with an error and its connection
\* closed; the step in which a session ends with an error leaves the route
\* table, the process and every other session as they are.
C15_ParseFailureIsLocal ==
    [][\A s \in Sessions :
          LET a == sess[s]
              b == sess'[s]
          IN  /\ (b.pc # "idle" /\ b.sent \in UnparsableStreams \cup CutShortStreams) =>
                    /\ b.dials = 0 /\ ~b.bOpen
                    /\ b.toBackend = <<>> /\ b.toClient = <<>>
                    /\ b.pc \in {"readLen", "readPacket", "done"}
                    /\ b.pc = "done" => (b.result = "err" /\ ~b.cOpen)
              /\ ( \/ b.sent \in UnparsableStreams
                   \/ b.sent \in CutShortStreams /\ b.cEOF ) =>
                    /\ b.pc = "readLen" => ReadLenReady(b)
                    /\ b.pc = "readPacket" => ReadPacketReady(b)
              /\ (a.pc # "done" /\ b.pc = "done" /\ b.result = "err") =>
                    /\ routes' = routes
                    /\ proc' = proc /\ proc = "running"
                    /\ \A t \in Sessions \ {s} : sess'[t] = sess[t]
      ]_vars

\* a session whose payload ends inside the protocol version has ended with
\* an error while another session is relaying on a route of the table
C15_Witness ==
    \E s, t \in Sessions :
        /\ sess[s].pc = "done" /\ sess[s].result = "err"
        /\ sess[s].sent \in UnparsableStreams
        /\ RefComplete(sess[s].sent) /\ RefPacketId(sess[s].sent) = 0
        /\ RefVarintLen(AfterVarint(RefPayload(sess[s].sent))) = 0
        /\ sess[t].pc = "relaying"
        /\ <<RefHostname(sess[t].sent), sess[t].origin>> \in routes

\* C16: a session calls connect at most once; the step in which connect
\* fails ends the session with an error and the inbound connection closed,
\* with no byte written to the client or to a backend and no backend
\* connection; nothing is tried again afterwards.
C16_DialFailureEndsSession ==
    [][\A s \in Sessions :
          LET a == sess[s]
              b == sess'[s]
          IN  /\ b.dials <= 1
              /\ b.pc \in {"dialing", "forwarding", "relaying"} => b.dials = 1
              /\ (a.pc = "dialing" /\ b.pc # "dialing" /\ ~b.bOpen) =>
                    /\ b.pc = "done" /\ b.result = "err" /\ b.why = "connect"
                    /\ ~b.cOpen
                    /\ b.toClient = <<>> /\ b.toBackend = <<>>
                    /\ b.dials = 1
              /\ (a.pc = "done" /\ a.why = "connect") => b = a
      ]_vars

\* the connect of a session has failed while the hostname still has its route
C16_Witness ==
    \E s \in Sessions :
        /\ sess[s].pc = "done"
        /\ sess[s].result = "err" /\ sess[s].why = "connect"
        /\ sess[s].dials = 1
        /\ <<RefHostname(sess[s].sent), sess[s].origin>> \in routes
        /\ ~sess[s].cOpen

\* C17: once the shutdown signal has been received, the accept loop takes no
\* connection: no session starts while the snapshot is being written or after.
C17_NoAcceptAfterSignal ==
    [][proc # "running" =>
          \A s \in Sessions : ~(sess[s].pc = "idle" /\ sess'[s].pc = "readLen")
      ]_vars

\* C18: while a session relays, in each direction the bytes written to the
\* destination followed by the bytes read and not yet written are exactly
\* the bytes taken from the source, in the order the source sent them, and
\* what is left in the source is the rest of what it sent; the step that ends
\* the relay, cancelling a loop at its read or inside its write, writes
\* nothing more; so what a destination holds is always a prefix of what the
\* source sent.
C18_RelayedIsPrefixOfSource ==
    [][\A s \in Sessions :
          LET a     == sess[s]
              b     == sess'[s]
              after == RefAfterOf[b.sent]
              took  == Len(after) - Len(b.inbuf)
              btook == Len(b.bsent) - Len(b.bbuf)
              frame == RefFrameOf[b.sent]
          IN  /\ b.c2b.st # "off" => b.sent \in WholeStreams
              /\ b.pc = "relaying" =>
                    /\ took >= 0 /\ btook >= 0
                    /\ Drop(b.toBackend, Len(frame)) \o b.c2b.chunk = Take(after, took)
                    /\ b.inbuf = Drop(after, took)
                    /\ b.toClient \o b.b2c.chunk = Take(b.bsent, btook)
                    /\ b.bbuf = Drop(b.bsent, btook)
              /\ (a.pc = "relaying" /\ b.pc # "relaying") =>
                    /\ b.toBackend = a.toBackend
                    /\ b.toClient = a.toClient
              /\ (b.pc = "done" /\ b.c2b.st # "off") =>
                    IsPrefix(Drop(b.toBackend, Len(frame)), after)
      ]_vars

\* the client sent two bytes after its frame and the loop toward the backend
\* was cancelled with the first of them written and the second not, while
\* the backend's first byte had reached the client
C18_Witness ==
    \E s \in Sessions :
        /\ sess[s].pc = "done"
        /\ sess[s].c2b.st = "cancelled" /\ sess[s].b2c.st = "done"
        /\ Len(RefAfterFrame(sess[s].sent)) = 2
        /\ sess[s].toBackend = ExpectedFrame(sess[s].sent) \o Take(RefAfterFrame(sess[s].sent), 1)
        /\ Len(sess[s].toClient) = 1

\* C19: before the relay the session takes from the client's stream the bytes
\* of the length and then the L bytes of the payload, no more: when the relay
\* starts the stream holds exactly the bytes that followed the frame and the
\* backend holds exactly the frame; during the relay the backend's bytes, the
\* chunk in hand and the unread bytes make up the encoded length, the payload
\* and the following bytes; when the client's end-of-stream ends the relay the
\* backend has received all of them, each once.
C19_NoReadAhead ==
    [][\A s \in Sessions :
          LET a == sess[s]
              b == sess'[s]
          IN  /\ b.pc = "readPacket" =>
                    Len(b.sent) - Len(b.inbuf) = RefVarintLen(b.sent)
              /\ b.pc \in {"dialing", "forwarding", "relaying"} => b.sent \in WholeStreams
              /\ b.pc \in {"dialing", "forwarding"} =>
                    /\ b.inbuf = RefAfterOf[b.sent]
                    /\ b.packet = RefPayload(b.sent)
              /\ (a.pc = "forwarding" /\ b.pc = "relaying") =>
                    /\ b.inbuf = RefAfterOf[b.sent]
                    /\ b.toBackend = RefFrameOf[b.sent]
              /\ b.pc = "relaying" =>
                    b.toBackend \o b.c2b.chunk \o b.inbuf = RefFrameOf[b.sent] \o RefAfterOf[b.sent]
              /\ (a.pc = "relaying" /\ b.pc = "done" /\ b.c2b.st = "done" /\ b.why = "eof") =>
                    b.toBackend = RefFrameOf[b.sent] \o RefAfterOf[b.sent]
      ]_vars

\* a client sent a frame with a padded length and two bytes after it, then
\* closed: the backend has the encoded length, the payload and the two bytes
C19_Witness ==
    \E s \in Sessions :
        /\ sess[s].pc = "done" /\ sess[s].why = "eof" /\ sess[s].c2b.st = "done"
        /\ sess[s].sent[1] >= CONTINUE_BIT
        /\ Len(RefAfterFrame(sess[s].sent)) = 2
        /\ sess[s].toBackend =
              UnsignedGroups(Len(RefPayload(sess[s].sent))) \o RefPayload(sess[s].sent)
              \o RefAfterFrame(sess[s].sent)

\* ------------------------------------------------------------------------
\* Claims on the range of the codec (CodecSpec)
\* ------------------------------------------------------------------------
\* C20: a value read_varint returns is at least 0 and less than 2^28, so a
\* buffer length cast from it is never negative; and every such value, which
\* is what a payload length is, written by write_varint reads back as itself.
C20_DecodedRange ==
    /\ (codec.op = "decoded" /\ codec.dec.ok) =>
          /\ codec.dec.val >= 0
          /\ codec.dec.val < 268435456
          /\ read_varint(write_varint(codec.dec.val)).ok
          /\ read_varint(write_varint(codec.dec.val)).val = codec.dec.val
          /\ read_varint(write_varint(codec.dec.val)).rest = <<>>
    /\ (codec.op = "roundtrip" /\ codec.val >= 0 /\ codec.val < 268435456) =>
          (codec.dec.ok /\ codec.dec.val = codec.val)

\* the largest value read_varint returns has been read: four groups of ones
C20_Witness ==
    /\ codec.op = "decoded"
    /\ codec.dec.ok
    /\ codec.dec.val = 268435455
    /\ Len(codec.bytes) > 4

====
